---- MODULE Spec2Model ----
(***************************************************************************)
(* Model of the attendance assistant pipeline of src/api/index.py:         *)
(* scrape -> analyze -> respond -> validate, run once per request by       *)
(* query_attendance, with the Google Sheets log as the only state shared   *)
(* between requests.                                                       *)
(*                                                                         *)
(* Text is a sequence of atoms.  An atom is a string: a single character   *)
(* where the code looks at characters (the text normalizer, the classifier *)
(* output) and a whole literal or value where it only concatenates (the    *)
(* f-string pieces, a URL, an error description).  Concatenation is \o and *)
(* the empty string is << >>.                                              *)
(***************************************************************************)
EXTENDS Integers, Sequences, FiniteSets, TLC

VARIABLES
    pc,             \* per request: the stage about to run
    agent,          \* per request: the AgentState record threaded through the graph
    combined_text,  \* per request: scraper_node's local accumulator
    idx,            \* per request: position of scraper_node's for loop in urls
    classification, \* per request: validation_node's local, the classifier's raw text
    outcome,        \* per request: what query_attendance returned or raised
    raisedIn,       \* per request: the stage whose exception reached query_attendance
    calls,          \* per request: the external calls made so far, in order
    fetched,        \* per request: what each GET of the scraper's loop answered, in order
    sheet,          \* the Google Sheets log: rows appended so far
    env             \* what the collaborators can answer in this run

vars == <<pc, agent, combined_text, idx, classification, outcome, raisedIn, calls, fetched,
          sheet, env>>

(***************************************************************************)
(* Bounds                                                                  *)
(***************************************************************************)
\* longest URL list handed to scraper_node when it is checked on its own
MaxUrls == 3
\* longest markup-free page text handed to the normalizer
MaxLen == 5

(***************************************************************************)
(* Strings as the code's library functions see them                        *)
(***************************************************************************)
Whitespace == {" ", "\t", "\n", "\r"}

IsSpace(c) == c \in Whitespace

\* str.strip(): leading and trailing whitespace removed
RECURSIVE LStrip(_)
LStrip(s) ==
    IF s = << >> THEN << >>
    ELSE IF IsSpace(Head(s)) THEN LStrip(Tail(s)) ELSE s

RECURSIVE RStrip(_)
RStrip(s) ==
    IF s = << >> THEN << >>
    ELSE IF IsSpace(s[Len(s)]) THEN RStrip(SubSeq(s, 1, Len(s) - 1)) ELSE s

Strip(s) == RStrip(LStrip(s))

\* position of the first line boundary of s, 0 when there is none
FirstBreak(s) ==
    IF \E k \in 1..Len(s) : s[k] \in {"\n", "\r"}
    THEN CHOOSE k \in 1..Len(s) :
            /\ s[k] \in {"\n", "\r"}
            /\ \A j \in 1..(k - 1) : s[j] \notin {"\n", "\r"}
    ELSE 0

\* str.splitlines(): \n, \r and \r\n end a line; no empty last line
RECURSIVE SplitLines(_)
SplitLines(s) ==
    IF s = << >> THEN << >>
    ELSE LET k == FirstBreak(s) IN
         IF k = 0 THEN <<s>>
         ELSE LET w == IF s[k] = "\r" /\ k < Len(s) /\ s[k + 1] = "\n" THEN 2 ELSE 1
              IN  <<SubSeq(s, 1, k - 1)>> \o SplitLines(SubSeq(s, k + w, Len(s)))

\* position of the first double space of s, 0 when there is none
FirstDouble(s) ==
    IF \E k \in 1..(Len(s) - 1) : s[k] = " " /\ s[k + 1] = " "
    THEN CHOOSE k \in 1..(Len(s) - 1) :
            /\ s[k] = " " /\ s[k + 1] = " "
            /\ \A j \in 1..(k - 1) : ~(s[j] = " " /\ s[j + 1] = " ")
    ELSE 0

\* str.split("  "): the pieces between non-overlapping double spaces
RECURSIVE SplitDouble(_)
SplitDouble(s) ==
    LET k == FirstDouble(s) IN
    IF k = 0 THEN <<s>>
    ELSE <<SubSeq(s, 1, k - 1)>> \o SplitDouble(SubSeq(s, k + 2, Len(s)))

\* '\n'.join(parts)
RECURSIVE JoinLines(_)
JoinLines(parts) ==
    IF parts = << >> THEN << >>
    ELSE IF Len(parts) = 1 THEN parts[1]
    ELSE parts[1] \o <<"\n">> \o JoinLines(Tail(parts))

RECURSIVE Flatten(_)
Flatten(ss) == IF ss = << >> THEN << >> ELSE Head(ss) \o Flatten(Tail(ss))

LowerCase == <<"a", "b", "c", "d", "e", "f", "g", "h", "i", "j", "k", "l", "m",
               "n", "o", "p", "q", "r", "s", "t", "u", "v", "w", "x", "y", "z">>
UpperCase == <<"A", "B", "C", "D", "E", "F", "G", "H", "I", "J", "K", "L", "M",
               "N", "O", "P", "Q", "R", "S", "T", "U", "V", "W", "X", "Y", "Z">>

\* str.upper()
Upper(s) ==
    [k \in 1..Len(s) |->
        IF \E j \in 1..26 : LowerCase[j] = s[k]
        THEN UpperCase[CHOOSE j \in 1..26 : LowerCase[j] = s[k]]
        ELSE s[k]]

\* the elements of a sequence
Range(f) == {f[k] : k \in DOMAIN f}

\* sub in s
Contains(sub, s) ==
    \E k \in 0..(Len(s) - Len(sub)) : SubSeq(s, k + 1, k + Len(sub)) = sub

(***************************************************************************)
(* Page markup and the text normalizer (scraper_node, lines 46-55)         *)
(***************************************************************************)
\* A page body is a sequence of nodes [tag, text]; "#text" is a bare text node.
IrrelevantTags == {"script", "style", "nav", "footer", "header", "svg"}

\* for tag in soup([...]): tag.extract()
RemoveIrrelevant(body) == SelectSeq(body, LAMBDA n : n.tag \notin IrrelevantTags)

\* soup.get_text(separator=' ')
RECURSIVE GetText(_)
GetText(body) ==
    IF body = << >> THEN << >>
    ELSE IF Len(body) = 1 THEN body[1].text
    ELSE body[1].text \o <<" ">> \o GetText(Tail(body))

\* (phrase.strip() for line in lines for phrase in line.split("  "))
ChunksNoStrip(line) == SplitDouble(line)

Chunks(line) ==
    LET ps == SplitDouble(line) IN [k \in 1..Len(ps) |-> Strip(ps[k])]

\* lines 53-55: strip each line, split on double spaces, strip each chunk,
\* drop the empty chunks, join with newlines
NormalizeText(text) ==
    LET ls     == SplitLines(text)
        lines  == [k \in 1..Len(ls) |-> Strip(ls[k])]
        chunks == Flatten([k \in 1..Len(lines) |-> Chunks(lines[k])])
    IN  JoinLines(SelectSeq(chunks, LAMBDA c : c # << >>))

\* lines 46-55: parse, drop the irrelevant tags, take the text, normalize it
CleanText(body) == NormalizeText(GetText(RemoveIrrelevant(body)))

(***************************************************************************)
(* The collaborators                                                       *)
(***************************************************************************)
Reqs == {"r1", "r2"}

\* query_attendance, lines 200-204
Targets ==
    << "https://attendance-management-system-fronte-two.vercel.app/teacher/dashboard",
       "https://attendance-management-system-fronte-two.vercel.app/teacher/subject",
       "https://attendance-management-system-fronte-two.vercel.app/teacher/attendance" >>

Queries == { <<"how do I add attendance?">>, <<"the app keeps crashing">> }

TextNode(t) == [tag |-> "#text", text |-> t]

PageGuide ==
    << [tag |-> "script", text |-> <<"x">>],
       [tag |-> "p",      text |-> <<"a", " ", " ", "b">>],
       [tag |-> "nav",    text |-> <<"m">>],
       TextNode(<<"\n", " ", "c", "\t">>) >>

PageBlank == << [tag |-> "style", text |-> <<"s">>] >>

Bodies == {PageGuide, PageBlank}

\* client.get(url, timeout=10.0) returns a response or raises; BeautifulSoup
\* may raise on the body of a 200 response (parse_err # "").
GetRaises ==
    { [kind |-> "raise", status |-> 0, body |-> << >>, parse_err |-> "", err |-> e] :
        e \in {"ConnectTimeout"} }

GetOk ==
    { [kind |-> "response", status |-> 200, body |-> b, parse_err |-> "", err |-> ""] :
        b \in Bodies }

GetUnparsable ==
    { [kind |-> "response", status |-> 200, body |-> PageBlank,
       parse_err |-> "ParserRejectedMarkup", err |-> ""] }

GetNot200 ==
    { [kind |-> "response", status |-> s, body |-> PageBlank, parse_err |-> "", err |-> ""] :
        s \in {204, 404, 500} }

GetResults == GetOk \cup GetUnparsable \cup GetNot200 \cup GetRaises

\* llm.invoke(messages) returns a message or raises.  A returned text either
\* restates the user prompt it was given or is empty.
LlmStyles == {"echo", "empty"}

LlmText(style, prompt) == IF style = "echo" THEN <<"LLM: ">> \o prompt ELSE << >>

LlmError == "APIConnectionError"

Marker == <<"C", "O", "M", "P", "L", "A", "I", "N", "T", "_", "O", "R", "_",
            "I", "S", "S", "U", "E">>

NormalWord == <<"N", "O", "R", "M", "A", "L", "_", "Q", "U", "E", "S", "T", "I", "O", "N">>

\* texts the classifier call can return
ClassifierTexts ==
    { Marker,
      NormalWord,
      <<" ", "c", "o", "m", "p", "l", "a", "i", "n", "t", "_", "o", "r", "_",
        "i", "s", "s", "u", "e", "\n">>,
      NormalWord \o <<" ", "/", " ">> \o Marker,
      <<"O", "T", "H", "E", "R">>,
      << >> }

\* os.getenv(...): unset, set to the empty string, or set
EnvValues(texts) ==
    {[present |-> FALSE, value |-> ""]} \cup {[present |-> TRUE, value |-> t] : t \in texts}

CredsValues == EnvValues({"", "{malformed", "{service_account}"})

SheetIdValues == EnvValues({"", "sheet-1"})

\* Python truthiness of an os.getenv result
Truthy(v) == v.present /\ v.value # ""

\* the first step of the log write that raises, "none" when all succeed
LogSteps == {"from_json_keyfile_dict", "authorize", "open_by_key", "append_row", "none"}

Timestamps == {"2026-01-01 09:00:00", "2026-01-01 09:00:01"}

\* a page that loads, a page that is missing and a connection that fails
PipelineGets ==
    { g \in GetResults :
        \/ g.kind = "raise"
        \/ g.status = 404
        \/ g.status = 200 /\ g.body = PageGuide /\ g.parse_err = "" }

Alphabet == {"a", " ", "\t", "\n", "\r"}

\* the markup-free texts of at most n characters
TextsUpTo(n) == UNION { [1..k -> Alphabet] : k \in 0..n }

\* pages that load and are one markup-free text
MarkupFreeGets ==
    { [kind |-> "response", status |-> 200, body |-> <<TextNode(t)>>,
       parse_err |-> "", err |-> ""] : t \in TextsUpTo(MaxLen) }

\* env names what the collaborators can answer in a run:
\*   "any"         every answer of every collaborator
\*   "pipeline"    a page loads, is missing or the connection fails
\*   "concurrent"  a page loads or the connection fails, the model answers
\*                 with text, the classifier names one of its two categories
\*   "markup-free" every page loads and is one markup-free text
Gets(e) ==
    CASE e = "any"         -> GetResults
      [] e = "pipeline"    -> PipelineGets
      [] e = "concurrent"  -> {g \in PipelineGets : g.status # 404}
      [] e = "markup-free" -> MarkupFreeGets

Styles(e) == IF e = "concurrent" THEN {"echo"} ELSE LlmStyles

Classes(e) == IF e = "concurrent" THEN {Marker, NormalWord} ELSE ClassifierTexts

UrlNames == {Targets[1], Targets[2]}

\* the URL lists of at most n entries, repeats included
UrlListsUpTo(n) == UNION { [1..k -> UrlNames] : k \in 0..n }

(***************************************************************************)
(* The graph's state and the request boundary                              *)
(***************************************************************************)
\* query_attendance, lines 206-213
InitialState(query, urls) ==
    [query |-> query, urls |-> urls, scraped_content |-> << >>, analysis |-> << >>,
     final_response |-> << >>, validation_status |-> << >>]

MergeClearing(state, update) ==
    [k \in DOMAIN state |->
        IF k \in DOMAIN update THEN update[k]
        ELSE IF k \in {"query", "urls"} THEN state[k] ELSE << >>]

\* LangGraph applies a node's returned dict to the state: the returned keys
\* are overwritten, every other key is kept
Merge(state, update) ==
    [k \in DOMAIN state |-> IF k \in DOMAIN update THEN update[k] ELSE state[k]]

NoOutcome == [kind |-> "none", status |-> 0, body |-> << >>]

\* line 218
Response(state) == [kind |-> "response", status |-> 200, body |-> state.final_response]

FaultReturnedAsResponse(e) == [kind |-> "response", status |-> 200, body |-> <<e>>]

\* lines 219-220
Fault(e) == [kind |-> "fault", status |-> 500, body |-> <<e>>]

\* lines 199-213 and the graph's entry point (line 188)
Submit(r) ==
    /\ pc[r] = "idle"
    /\ \E q \in Queries : agent' = [agent EXCEPT ![r] = InitialState(q, Targets)]
    /\ pc' = [pc EXCEPT ![r] = "scrape"]
    /\ combined_text' = [combined_text EXCEPT ![r] = << >>]
    /\ idx' = [idx EXCEPT ![r] = 1]
    /\ UNCHANGED <<classification, outcome, raisedIn, calls, fetched, sheet, env>>

AbortHanging(r, stage, e) ==
    /\ pc' = [pc EXCEPT ![r] = "hung"]
    /\ outcome' = outcome
    /\ raisedIn' = [raisedIn EXCEPT ![r] = stage]

\* an exception leaving a node: ainvoke raises, lines 219-220 turn it into a 500
Abort(r, stage, e) ==
    /\ pc' = [pc EXCEPT ![r] = "done"]
    /\ outcome' = [outcome EXCEPT ![r] = Fault(e)]
    /\ raisedIn' = [raisedIn EXCEPT ![r] = stage]

(***************************************************************************)
(* Node 1: scraper_node                                                    *)
(***************************************************************************)
\* line 57
ContentSection(url, clean_text) ==
    <<"\n", "--- Content from ", url, " ---", "\n">> \o clean_text \o <<"\n">>

\* line 59
FailedSection(url, status_code) ==
    <<"\n", "--- Failed to scrape ", url, " (Status: ", ToString(status_code), ") ---", "\n">>

ErrorSectionDropped(url, e) == << >>

\* line 61
ErrorSection(url, e) ==
    <<"\n", "--- Error scraping ", url, ": ", e, " ---", "\n">>

\* lines 43-61: what one iteration of the loop adds to combined_text
ScrapeSection(url, res) ==
    IF res.kind = "raise" THEN ErrorSection(url, res.err)
    ELSE IF res.status = 200
         THEN IF res.parse_err # "" THEN ErrorSection(url, res.parse_err)
              ELSE ContentSection(url, CleanText(res.body))
         ELSE FailedSection(url, res.status)

Call(op, arg) == [op |-> op, arg |-> arg]

ScrapeUrlAborting(r) ==
    /\ pc[r] = "scrape"
    /\ idx[r] <= Len(agent[r].urls)
    /\ \E res \in Gets(env) :
         LET url == agent[r].urls[idx[r]] IN
         /\ calls' = [calls EXCEPT ![r] = Append(@, Call("get", url))]
         /\ fetched' = [fetched EXCEPT ![r] = Append(@, res)]
         /\ IF res.kind = "raise"
            THEN /\ Abort(r, "scrape", res.err)
                 /\ UNCHANGED <<combined_text, idx>>
            ELSE /\ combined_text' = [combined_text EXCEPT ![r] = @ \o ScrapeSection(url, res)]
                 /\ idx' = [idx EXCEPT ![r] = @ + 1]
                 /\ UNCHANGED <<pc, outcome, raisedIn>>
    /\ UNCHANGED <<agent, classification, sheet, env>>

ScrapeUrlRetrying(r) ==
    /\ pc[r] = "scrape"
    /\ idx[r] <= Len(agent[r].urls)
    /\ \E res \in Gets(env), again \in Gets(env) :
         LET url   == agent[r].urls[idx[r]]
             tries == IF res.kind = "raise" THEN <<res, again>> ELSE <<res>>
         IN
         /\ combined_text' =
                [combined_text EXCEPT ![r] = @ \o ScrapeSection(url, tries[Len(tries)])]
         /\ calls' = [calls EXCEPT ![r] =
                        @ \o [k \in 1..Len(tries) |-> Call("get", url)]]
         /\ fetched' = [fetched EXCEPT ![r] = @ \o tries]
    /\ idx' = [idx EXCEPT ![r] = @ + 1]
    /\ UNCHANGED <<pc, agent, classification, outcome, raisedIn, sheet, env>>

\* lines 42-61: one iteration of the for loop
ScrapeUrl(r) ==
    /\ pc[r] = "scrape"
    /\ idx[r] <= Len(agent[r].urls)
    /\ \E res \in Gets(env) :
         LET url == agent[r].urls[idx[r]] IN
         /\ combined_text' = [combined_text EXCEPT ![r] = @ \o ScrapeSection(url, res)]
         /\ calls' = [calls EXCEPT ![r] = Append(@, Call("get", url))]
         /\ fetched' = [fetched EXCEPT ![r] = Append(@, res)]
    /\ idx' = [idx EXCEPT ![r] = @ + 1]
    /\ UNCHANGED <<pc, agent, classification, outcome, raisedIn, sheet, env>>

\* line 63, and the graph's edge scrape -> analyze (line 189)
ScrapeReturn(r) ==
    /\ pc[r] = "scrape"
    /\ idx[r] > Len(agent[r].urls)
    /\ agent' = [agent EXCEPT ![r].scraped_content = combined_text[r]]
    /\ pc' = [pc EXCEPT ![r] = "analyze"]
    /\ UNCHANGED <<combined_text, idx, classification, outcome, raisedIn, calls, fetched,
                   sheet, env>>

(***************************************************************************)
(* Node 2: analyst_node                                                    *)
(***************************************************************************)
\* line 76
AnalystPrompt(query, content) ==
    <<"Query: ">> \o query \o <<"\n", "\n", "Scraped Content:", "\n">> \o content

\* lines 66-79 and the edge analyze -> respond (line 190)
Analyze(r) ==
    /\ pc[r] = "analyze"
    /\ calls' = [calls EXCEPT ![r] = Append(@, Call("llm", "analyze"))]
    /\ \/ /\ Abort(r, "analyze", LlmError)
          /\ UNCHANGED agent
       \/ /\ \E style \in Styles(env) :
               LET prompt == AnalystPrompt(agent[r].query, agent[r].scraped_content) IN
               agent' = [agent EXCEPT ![r] = Merge(@, [analysis |-> LlmText(style, prompt)])]
          /\ pc' = [pc EXCEPT ![r] = "respond"]
          /\ UNCHANGED <<outcome, raisedIn>>
    /\ UNCHANGED <<combined_text, idx, classification, fetched, sheet, env>>

(***************************************************************************)
(* Node 3: responder_node                                                  *)
(***************************************************************************)
\* line 92
ResponderPrompt(query, analysis) ==
    <<"Query: ">> \o query \o <<"\n", "Analysis:", "\n">> \o analysis

\* lines 82-95 and the edge respond -> validate (line 191)
Respond(r) ==
    /\ pc[r] = "respond"
    /\ calls' = [calls EXCEPT ![r] = Append(@, Call("llm", "respond"))]
    /\ \/ /\ Abort(r, "respond", LlmError)
          /\ UNCHANGED agent
       \/ /\ \E style \in Styles(env) :
               LET prompt == ResponderPrompt(agent[r].query, agent[r].analysis) IN
               agent' = [agent EXCEPT ![r] = Merge(@, [final_response |-> LlmText(style, prompt)])]
          /\ pc' = [pc EXCEPT ![r] = "validate"]
          /\ UNCHANGED <<outcome, raisedIn>>
    /\ UNCHANGED <<combined_text, idx, classification, fetched, sheet, env>>

(***************************************************************************)
(* Node 4: validation_node                                                 *)
(***************************************************************************)
\* lines 127 and 130
NeedsAttentionAlways(text) == TRUE

NeedsAttentionExact(text) == text = Marker

NeedsAttention(text) == Contains(Marker, Upper(Strip(text)))

AckText ==
    "Thank you for bringing this to our attention. We have recorded your feedback and our team will review this issue. We appreciate your patience and will work on resolving this as soon as possible.\n\nIf you have any urgent concerns, please contact our support team at: m.ahmedofficial677@gmail.com"

\* lines 153-155
AckLogged == <<AckText>>

\* lines 163-165
AckNoCredentials == <<AckText>>

AckErrorWithDetail == <<AckText, " (not recorded)">>

\* lines 172-174
AckError == <<AckText>>

\* lines 157-160
LoggedUpdate ==
    [validation_status |-> <<"COMPLAINT/ISSUE - Logged to Google Sheets">>,
     final_response |-> AckLogged]

NoCredentialsUpdateClaimingLogged ==
    [validation_status |-> <<"COMPLAINT/ISSUE - Logged to Google Sheets">>,
     final_response |-> AckNoCredentials]

\* lines 166-169
NoCredentialsUpdate ==
    [validation_status |-> <<"COMPLAINT/ISSUE - No Google Sheets credentials configured">>,
     final_response |-> AckNoCredentials]

ErrorUpdateClaimingLogged(e) ==
    [validation_status |-> <<"COMPLAINT/ISSUE - Logged to Google Sheets">>,
     final_response |-> AckError]

\* lines 175-178
ErrorUpdate(e) ==
    [validation_status |-> <<"COMPLAINT/ISSUE - Error logging: ", e>>,
     final_response |-> AckError]

RoutineUpdateOverwriting ==
    [validation_status |-> <<"NORMAL_QUESTION - Not logged">>, final_response |-> << >>]

\* line 180
RoutineUpdate == [validation_status |-> <<"NORMAL_QUESTION - Not logged">>]

\* lines 136-150: how far the log write gets.  "skipped": the credentials test
\* of line 136 fails; "raised": a step raised (what carries its description);
\* "appended": append_row returned.
LogWrite(creds_json, sheet_id, failing) ==
    IF ~(Truthy(creds_json) /\ Truthy(sheet_id))
    THEN [how |-> "skipped", what |-> "", called |-> FALSE]
    ELSE IF creds_json.value = "{malformed"
    THEN [how |-> "raised", what |-> "JSONDecodeError", called |-> FALSE]
    ELSE IF failing # "none"
    THEN [how |-> "raised", what |-> failing, called |-> failing = "append_row"]
    ELSE [how |-> "appended", what |-> "", called |-> TRUE]

\* every way the log write can go, over the environment's settings (lines
\* 133-134) and the step that raises
LogWrites ==
    { LogWrite(creds_json, sheet_id, failing) :
        creds_json \in CredsValues, sheet_id \in SheetIdValues, failing \in LogSteps }

\* lines 131-178: the dict validation_node returns for a complaint
ComplaintUpdate(w) ==
    IF w.how = "appended" THEN LoggedUpdate
    ELSE IF w.how = "skipped" THEN NoCredentialsUpdate
    ELSE ErrorUpdate(w.what)

AppendRowReplacing(rows, row) == <<row>>

\* line 150: sheet.append_row([timestamp, query])
AppendRow(rows, row) == Append(rows, row)

\* lines 98-180, the edge validate -> END (line 192) and line 218
Validate(r) ==
    /\ pc[r] = "validate"
    /\ \/ /\ Abort(r, "validate", LlmError)
          /\ calls' = [calls EXCEPT ![r] = Append(@, Call("llm", "classify"))]
          /\ UNCHANGED <<agent, classification, sheet>>
       \/ \E text \in Classes(env) :
            /\ classification' = [classification EXCEPT ![r] = text]
            /\ pc' = [pc EXCEPT ![r] = "done"]
            /\ raisedIn' = raisedIn
            /\ IF NeedsAttention(text)
               THEN \E w \in LogWrites, timestamp \in Timestamps :
                      LET result == Merge(agent[r], ComplaintUpdate(w))
                      IN  /\ agent' = [agent EXCEPT ![r] = result]
                          /\ outcome' = [outcome EXCEPT ![r] = Response(result)]
                          /\ sheet' = IF w.how = "appended"
                                      THEN AppendRow(sheet, <<timestamp, agent[r].query>>)
                                      ELSE sheet
                          /\ calls' = [calls EXCEPT ![r] =
                                         IF w.called
                                         THEN @ \o <<Call("llm", "classify"),
                                                     Call("append_row", timestamp)>>
                                         ELSE Append(@, Call("llm", "classify"))]
               ELSE LET result == Merge(agent[r], RoutineUpdate) IN
                    /\ agent' = [agent EXCEPT ![r] = result]
                    /\ outcome' = [outcome EXCEPT ![r] = Response(result)]
                    /\ calls' = [calls EXCEPT ![r] = Append(@, Call("llm", "classify"))]
                    /\ sheet' = sheet
    /\ UNCHANGED <<combined_text, idx, fetched, env>>

(***************************************************************************)
(* The browser-based scraper_node of src/main_langgraph.py                 *)
(***************************************************************************)
\* the calls of one URL's try block that can raise, in the order they are
\* made; "none" when none raises
BrowserSteps ==
    <<"goto", "evaluate", "wait_for_timeout", "content", "BeautifulSoup",
      "query_selector_all", "inner_text", "none">>

\* the steps made after line 58 has added the content section
StepsAfterContent == {"query_selector_all", "inner_text"}

\* el.inner_text() of the interactive elements of a page, in page order
ElementTexts ==
    { << >>,
      << <<" ">> >>,
      << <<"O", "K">>, <<" ", "G", "o">>, <<"O", "K", "\n">> >> }

\* lines 62-66: the stripped texts that are not empty
ElementsFound(texts) ==
    SelectSeq([k \in 1..Len(texts) |-> Strip(texts[k])], LAMBDA t : t # << >>)

\* list(set(elements_found)): each distinct text once, in any order
Orderings(found) ==
    LET distinct == Range(found)
    IN  { ord \in [1..Cardinality(distinct) -> distinct] :
            \A i, j \in 1..Cardinality(distinct) : ord[i] = ord[j] => i = j }

\* ", ".join(parts)
RECURSIVE JoinComma(_)
JoinComma(parts) ==
    IF parts = << >> THEN << >>
    ELSE IF Len(parts) = 1 THEN parts[1]
    ELSE parts[1] \o <<",", " ">> \o JoinComma(Tail(parts))

\* line 69
InteractiveLine(url, ordered) ==
    <<"\n", "Interactive elements found on ", url, ": ">> \o JoinComma(ordered) \o <<"\n">>

\* lines 38-72: what one iteration adds to combined_text when `failing` is
\* the step that raises
BrowserSection(url, body, ordered, failing) ==
    IF failing = "none"
    THEN ContentSection(url, CleanText(body))
            \o (IF ordered # << >> THEN InteractiveLine(url, ordered) ELSE << >>)
    ELSE IF failing \in StepsAfterContent
    THEN ContentSection(url, CleanText(body)) \o ErrorSection(url, failing)
    ELSE ErrorSection(url, failing)

\* lines 37-72: one iteration of the for loop
BrowserScrapeUrl(r) ==
    /\ pc[r] = "scrape"
    /\ idx[r] <= Len(agent[r].urls)
    /\ \E body \in Bodies, texts \in ElementTexts, k \in 1..Len(BrowserSteps) :
         \E ordered \in Orderings(ElementsFound(texts)) :
            LET url     == agent[r].urls[idx[r]]
                failing == BrowserSteps[k]
            IN
            /\ combined_text' =
                 [combined_text EXCEPT ![r] = @ \o BrowserSection(url, body, ordered, failing)]
            /\ calls' = [calls EXCEPT ![r] = Append(@, Call("goto", url))]
            /\ fetched' = [fetched EXCEPT ![r] =
                             Append(@, [kind |-> IF failing = "none" THEN "response" ELSE "raise",
                                        status |-> 0, body |-> body, parse_err |-> "",
                                        err |-> failing])]
    /\ idx' = [idx EXCEPT ![r] = @ + 1]
    /\ UNCHANGED <<pc, agent, classification, outcome, raisedIn, sheet, env>>

\* lines 74-76, and the graph's edge scrape -> analyze (line 123)
BrowserScrapeReturn(r) ==
    /\ pc[r] = "scrape"
    /\ idx[r] > Len(agent[r].urls)
    /\ agent' = [agent EXCEPT ![r].scraped_content = combined_text[r]]
    /\ pc' = [pc EXCEPT ![r] = "analyze"]
    /\ UNCHANGED <<combined_text, idx, classification, outcome, raisedIn, calls, fetched,
                   sheet, env>>

(***************************************************************************)
(* Specifications                                                          *)
(***************************************************************************)
Idle ==
    /\ pc = [r \in Reqs |-> "idle"]
    /\ agent = [r \in Reqs |-> InitialState(<< >>, << >>)]
    /\ combined_text = [r \in Reqs |-> << >>]
    /\ idx = [r \in Reqs |-> 1]
    /\ classification = [r \in Reqs |-> << >>]
    /\ outcome = [r \in Reqs |-> NoOutcome]
    /\ raisedIn = [r \in Reqs |-> "none"]
    /\ calls = [r \in Reqs |-> << >>]
    /\ fetched = [r \in Reqs |-> << >>]
    /\ sheet = << >>

\* lines 183-193: the compiled graph, one stage at a time
Step(r) ==
    \/ Submit(r)
    \/ ScrapeUrl(r)
    \/ ScrapeReturn(r)
    \/ Analyze(r)
    \/ Respond(r)
    \/ Validate(r)

\* One request through query_attendance.
Init ==
    /\ Idle
    /\ env = "pipeline"

Next == Step("r1")

Spec == Init /\ [][Next]_vars

\* One request, every external call of which eventually returns or raises:
\* the stage that is waiting for it is eventually run.
SpecFair == Init /\ [][Next]_vars /\ WF_vars(Next)

\* Two requests through query_attendance at the same time.
InitConcurrent ==
    /\ Idle
    /\ env = "concurrent"

NextConcurrent == \E r \in Reqs : Step(r)

SpecConcurrent == InitConcurrent /\ [][NextConcurrent]_vars

\* scraper_node on its own, entered with any URL list and any answer per URL.
Entered(urls) ==
    /\ pc = [r \in Reqs |-> IF r = "r1" THEN "scrape" ELSE "idle"]
    /\ \E q \in Queries :
         agent = [r \in Reqs |-> IF r = "r1" THEN InitialState(q, urls)
                                 ELSE InitialState(<< >>, << >>)]
    /\ combined_text = [r \in Reqs |-> << >>]
    /\ idx = [r \in Reqs |-> 1]
    /\ classification = [r \in Reqs |-> << >>]
    /\ outcome = [r \in Reqs |-> NoOutcome]
    /\ raisedIn = [r \in Reqs |-> "none"]
    /\ calls = [r \in Reqs |-> << >>]
    /\ fetched = [r \in Reqs |-> << >>]
    /\ sheet = << >>

InitScraper ==
    /\ \E urls \in UrlListsUpTo(MaxUrls) : Entered(urls)
    /\ env = "any"

NextScraper ==
    \/ ScrapeUrl("r1")
    \/ ScrapeReturn("r1")

SpecScraper == InitScraper /\ [][NextScraper]_vars

\* scraper_node on one page of markup-free text: the normalizer's inputs.
InitNormalizer ==
    /\ Entered(<<Targets[1]>>)
    /\ env = "markup-free"

SpecNormalizer == InitNormalizer /\ [][NextScraper]_vars

\* The browser-based scraper_node on its own, entered with any URL list.
\* The state record is the API's; the validation_status field, which
\* main_langgraph.py's AgentState lacks, is read by no browser action.
NextBrowser ==
    \/ BrowserScrapeUrl("r1")
    \/ BrowserScrapeReturn("r1")

SpecBrowser == InitScraper /\ [][NextBrowser]_vars

(***************************************************************************)
(* Vocabulary of the properties                                            *)
(***************************************************************************)
SectionHeaders == {"--- Content from ", "--- Failed to scrape ", "--- Error scraping "}

FailureHeaders == {"--- Failed to scrape ", "--- Error scraping "}

\* the URL that labels each '---' section of a text, in the order of the text
SectionLabels(text) ==
    LET at == SelectSeq([k \in 1..Len(text) |-> k], LAMBDA k : text[k] \in SectionHeaders)
    IN  [j \in 1..Len(at) |-> text[at[j] + 1]]

\* the URLs of the GET calls a request has made, in order
Fetched(r) ==
    LET gets == SelectSeq(calls[r], LAMBDA c : c.op = "get")
    IN  [j \in 1..Len(gets) |-> gets[j].arg]

FetchFailed(r) == \E k \in 1..Len(agent[r].scraped_content) :
                     agent[r].scraped_content[k] \in FailureHeaders

\* the classifier named the needs-attention category (read as line 127 reads it:
\* surrounding whitespace and letter case aside)
SaysComplaint(text) ==
    \E k \in 0..(Len(text) - Len(Marker)) :
        Upper(SubSeq(text, k + 1, k + Len(Marker))) = Marker

Completed(r) == pc[r] = "done" /\ outcome[r].kind = "response"

Classified(r) == Call("llm", "classify") \in Range(calls[r]) /\ raisedIn[r] # "validate"

StatusLogged == <<"COMPLAINT/ISSUE - Logged to Google Sheets">>
StatusNoCredentials == <<"COMPLAINT/ISSUE - No Google Sheets credentials configured">>
StatusNotLogged == <<"NORMAL_QUESTION - Not logged">>

IsErrorLoggingStatus(st) == Len(st) = 2 /\ st[1] = "COMPLAINT/ISSUE - Error logging: "

(***************************************************************************)
(* C1: whatever each GET does (200, another status, an exception from the  *)
(* GET or from parsing), scraper_node's text holds exactly one '---'       *)
(* section per input URL, the i-th labeled with the i-th URL: while the    *)
(* loop runs, one per URL visited so far; once it has returned, one per    *)
(* URL of the list.                                                        *)
(***************************************************************************)
C1_OneSectionPerUrl ==
    \A r \in Reqs :
        /\ pc[r] = "scrape" =>
             SectionLabels(combined_text[r]) = SubSeq(agent[r].urls, 1, idx[r] - 1)
        /\ pc[r] = "analyze" =>
             /\ SectionLabels(agent[r].scraped_content) = agent[r].urls
             /\ Len(SectionLabels(agent[r].scraped_content)) = Len(agent[r].urls)

\* a list of three URLs with a repeat, returned with a page, a bad status and an error
C1_Witness ==
    /\ pc["r1"] = "analyze"
    /\ Len(agent["r1"].urls) >= 3
    /\ agent["r1"].urls[1] = agent["r1"].urls[3]
    /\ SectionHeaders \subseteq Range(agent["r1"].scraped_content)

(***************************************************************************)
(* C2 as stated: once a GET has failed (non-200 or an exception), the      *)
(* request still ends in a success response, never in a 500 fault.         *)
(***************************************************************************)
C2_FetchFailureEndsInSuccess ==
    \A r \in Reqs :
        (pc[r] = "done" /\ FetchFailed(r)) => outcome[r].kind = "response"

(***************************************************************************)
(* C2 as amended: a failed GET is isolated.  Every URL of the list is      *)
(* still attempted, in order and once; scraper_node never raises; analyze  *)
(* runs on the text that carries the failure; and the request then ends in *)
(* a fault only when a text-understanding call of analyze, respond or      *)
(* validate raised, and otherwise in a success response after all three    *)
(* later stages ran.                                                       *)
(***************************************************************************)
C2_FetchFailureIsolated ==
    \A r \in Reqs :
        /\ raisedIn[r] # "scrape"
        /\ pc[r] \notin {"idle", "scrape"} => Fetched(r) = agent[r].urls
        /\ (pc[r] = "done" /\ FetchFailed(r)) =>
             /\ Call("llm", "analyze") \in Range(calls[r])
             /\ outcome[r].kind \in {"response", "fault"}
             /\ outcome[r].kind = "fault" => raisedIn[r] \in {"analyze", "respond", "validate"}
             /\ raisedIn[r] = "none" =>
                  /\ outcome[r].kind = "response"
                  /\ {Call("llm", "respond"), Call("llm", "classify")} \subseteq Range(calls[r])

\* the first GET raised, the second returned 404, the request ended in a response
C2_Witness ==
    /\ Completed("r1")
    /\ FailureHeaders \subseteq Range(agent["r1"].scraped_content)
    /\ agent["r1"].scraped_content[2] = "--- Error scraping "
    /\ Len(Fetched("r1")) = Len(Targets)

(***************************************************************************)
(* C3 as stated: validation_node never raises past its boundary.  Once the *)
(* classifier call has been made, whatever it and the log collaborator do, *)
(* the request ends in a response that carries a validation_status.        *)
(***************************************************************************)
C3_ValidationNeverRaises ==
    \A r \in Reqs :
        (pc[r] = "done" /\ Call("llm", "classify") \in Range(calls[r])) =>
            /\ outcome[r].kind = "response"
            /\ agent[r].validation_status # << >>

(***************************************************************************)
(* C4: when the classifier marks the query as routine, the validate step   *)
(* leaves final_response as responder_node set it, the request returns     *)
(* exactly that text, and validation_status is the not-logged marker.      *)
(***************************************************************************)
C4_RoutineKeepsResponse ==
    [][\A r \in Reqs :
         (/\ pc[r] = "validate"
          /\ pc'[r] = "done"
          /\ raisedIn'[r] = "none"
          /\ ~SaysComplaint(classification'[r]))
         => /\ agent'[r].final_response = agent[r].final_response
            /\ outcome'[r] = [kind |-> "response", status |-> 200,
                              body |-> agent[r].final_response]
            /\ agent'[r].validation_status = StatusNotLogged]_vars

\* a routine request that returned the guide the responder composed
C4_Witness ==
    /\ Completed("r1")
    /\ Classified("r1")
    /\ ~SaysComplaint(classification["r1"])
    /\ classification["r1"] # << >>
    /\ outcome["r1"].body # << >>
    /\ outcome["r1"].body[1] = "LLM: "

(***************************************************************************)
(* C5: whenever the classifier marks the query as needing attention, the   *)
(* request returns the fixed acknowledgment text: the same text whether    *)
(* the row was appended, the credentials were missing or the logging       *)
(* raised, and whatever responder_node composed.                           *)
(***************************************************************************)
C5_ComplaintGetsAcknowledgment ==
    \A r \in Reqs :
        (pc[r] = "done" /\ Classified(r) /\ SaysComplaint(classification[r])) =>
            /\ outcome[r] = [kind |-> "response", status |-> 200, body |-> <<AckText>>]
            /\ agent[r].final_response = <<AckText>>
            /\ \/ agent[r].validation_status \in {StatusLogged, StatusNoCredentials}
               \/ IsErrorLoggingStatus(agent[r].validation_status)

\* a lower-case complaint verdict whose logging raised in append_row
C5_Witness ==
    /\ Completed("r1")
    /\ SaysComplaint(classification["r1"])
    /\ classification["r1"] # Marker
    /\ agent["r1"].validation_status = <<"COMPLAINT/ISSUE - Error logging: ", "append_row">>
    /\ outcome["r1"].body = <<AckText>>

(***************************************************************************)
(* C6: the log append is best-effort.  When the query is classified as     *)
(* needing attention and no row was written (the credentials or the sheet  *)
(* id are missing, or a step of the write raised), the request still       *)
(* completes with the non-empty acknowledgment text, and validation_status *)
(* is the no-credentials or an error-logging status, never 'Logged'.       *)
(***************************************************************************)
C6_LogIsBestEffort ==
    \A r \in Reqs :
        (pc[r] = "done" /\ Classified(r) /\ SaysComplaint(classification[r])
            /\ sheet = << >>) =>
            /\ outcome[r].kind = "response"
            /\ outcome[r].body = <<AckText>>
            /\ outcome[r].body # << >>
            /\ agent[r].validation_status # StatusLogged
            /\ \/ agent[r].validation_status = StatusNoCredentials
               \/ IsErrorLoggingStatus(agent[r].validation_status)

\* the credentials did not parse: error-logging status, nothing in the log
C6_Witness ==
    /\ Completed("r1")
    /\ SaysComplaint(classification["r1"])
    /\ sheet = << >>
    /\ agent["r1"].validation_status = <<"COMPLAINT/ISSUE - Error logging: ", "JSONDecodeError">>

(***************************************************************************)
(* C7: when the text-understanding call of analyze or respond raises, no   *)
(* later stage runs (no respond after a failed analyze, no classification, *)
(* no log append), and the request ends in a 500 fault that carries the    *)
(* error description and no guide.                                         *)
(***************************************************************************)
C7_ExtractionFailureIsFatal ==
    \A r \in Reqs :
        raisedIn[r] \in {"analyze", "respond"} =>
            /\ pc[r] = "done"
            /\ outcome[r] = [kind |-> "fault", status |-> 500, body |-> <<LlmError>>]
            /\ calls[r][Len(calls[r])] = Call("llm", raisedIn[r])
            /\ \A k \in 1..Len(calls[r]) :
                 /\ calls[r][k].op # "append_row"
                 /\ calls[r][k] # Call("llm", "classify")
            /\ classification[r] = << >>
            /\ agent[r].validation_status = << >>
            /\ agent[r].final_response = << >>
            /\ sheet = << >>

\* the respond call raised after analyze had produced an extraction
C7_Witness ==
    /\ raisedIn["r1"] = "respond"
    /\ agent["r1"].analysis # << >>
    /\ outcome["r1"].kind = "fault"

(***************************************************************************)
(* C8 as stated: on every successful completion final_response is          *)
(* non-empty, whatever the triage outcome and whatever text the respond    *)
(* call returned.                                                          *)
(***************************************************************************)
C8_ResponseNonEmpty ==
    \A r \in Reqs :
        Completed(r) => /\ outcome[r].body # << >>
                        /\ agent[r].final_response # << >>

(***************************************************************************)
(* C9: two requests running at the same time are independent.  Under every *)
(* interleaving of their stages, a step of one request changes nothing of  *)
(* the other; each request's scraped_content, analysis and final_response  *)
(* come from its own URL list, its own query and its own earlier fields;   *)
(* the log only grows, one whole row at a time; and the log holds exactly  *)
(* one row, with the request's own query, for every request whose append   *)
(* succeeded, and no other row.                                            *)
(***************************************************************************)
Local(r) == <<pc[r], agent[r], combined_text[r], idx[r], classification[r],
              outcome[r], raisedIn[r], calls[r], fetched[r]>>

Stepped(r) == pc[r] # pc'[r] \/ calls[r] # calls'[r]

MentionsOnlyOwnQuery(r, text) ==
    \A q \in Queries : q[1] \in Range(text) => q = agent[r].query

OwnData(r) ==
    /\ SectionLabels(combined_text[r]) = SubSeq(agent[r].urls, 1, idx[r] - 1)
    /\ agent[r].scraped_content \in {<< >>, combined_text[r]}
    /\ agent[r].analysis \in
         {<< >>} \cup {LlmText(st, AnalystPrompt(agent[r].query, agent[r].scraped_content)) :
                          st \in LlmStyles}
    /\ agent[r].final_response \in
         {<< >>, <<AckText>>}
            \cup {LlmText(st, ResponderPrompt(agent[r].query, agent[r].analysis)) :
                     st \in LlmStyles}
    /\ MentionsOnlyOwnQuery(r, agent[r].scraped_content)
    /\ MentionsOnlyOwnQuery(r, agent[r].analysis)
    /\ MentionsOnlyOwnQuery(r, agent[r].final_response)
    /\ MentionsOnlyOwnQuery(r, agent[r].validation_status)

RowsHolding(q) == {k \in 1..Len(sheet) : sheet[k][2] = q}

LoggedWith(q) ==
    {r \in Reqs : agent[r].query = q /\ agent[r].validation_status = StatusLogged}

LogMatchesRequests ==
    /\ \A q \in Queries : Cardinality(RowsHolding(q)) = Cardinality(LoggedWith(q))
    /\ \A k \in 1..Len(sheet) : sheet[k][1] \in Timestamps /\ sheet[k][2] \in Queries

C9_RequestsIndependent ==
    /\ [](LogMatchesRequests /\ \A r \in Reqs : OwnData(r))
    /\ [][/\ \A r \in Reqs : Stepped(r) \/ Local(r)' = Local(r)
          /\ \A r1, r2 \in Reqs : (Stepped(r1) /\ Stepped(r2)) => r1 = r2
          /\ sheet' = sheet \/ \E r \in Reqs, ts \in Timestamps :
                                  /\ Stepped(r)
                                  /\ sheet' = Append(sheet, <<ts, agent[r].query>>)]_vars

\* both requests complained, with different queries; both rows are in the log,
\* the second request's row first
C9_Witness ==
    /\ Completed("r1") /\ Completed("r2")
    /\ agent["r1"].query # agent["r2"].query
    /\ agent["r1"].validation_status = StatusLogged
    /\ agent["r2"].validation_status = StatusLogged
    /\ Len(sheet) = 2
    /\ sheet[1][2] = agent["r2"].query
    /\ sheet[2][2] = agent["r1"].query
    /\ agent["r1"].scraped_content # agent["r2"].scraped_content

(***************************************************************************)
(* C10: the text normalizer is idempotent on markup-free text.  For every  *)
(* page text over letters, spaces, tabs and line breaks, normalizing the   *)
(* normalized text again gives the same text, and the normalized text has  *)
(* no empty line and no line that starts or ends with whitespace.          *)
(***************************************************************************)
\* the normalized text inside a single 'Content from' section
CleanTextOf(section) == SubSeq(section, 6, Len(section) - 1)

NoEmptyOrPaddedLine(c) ==
    /\ c # << >> => ~IsSpace(c[1]) /\ ~IsSpace(c[Len(c)])
    /\ \A k \in 2..(Len(c) - 1) :
         c[k] \in {"\n", "\r"} => /\ c[k] = "\n"
                                  /\ ~IsSpace(c[k - 1])
                                  /\ ~IsSpace(c[k + 1])

C10_NormalizerIdempotent ==
    \A r \in Reqs :
        (combined_text[r] # << >> /\ combined_text[r][2] = "--- Content from ") =>
            LET c == CleanTextOf(combined_text[r]) IN
            /\ NormalizeText(c) = c
            /\ NoEmptyOrPaddedLine(c)

\* a page whose text normalizes to two lines, one with a tab inside it
C10_Witness ==
    /\ pc["r1"] = "analyze"
    /\ CleanTextOf(agent["r1"].scraped_content) = <<"a", "\t", "a", "\n", "a">>

(***************************************************************************)
(* C11: within one request the stages run strictly in the order scrape,    *)
(* analyze, respond, validate, each at most once and never again: a stage  *)
(* starts only when the one before it has completed, and the external      *)
(* calls of a request are, in this order and each at most once, one GET    *)
(* per URL of the list, the analyze call, the respond call and the         *)
(* classify call (followed at most by the log append).                     *)
(***************************************************************************)
StageRank(stage) ==
    CASE stage = "idle"     -> 0
      [] stage = "scrape"   -> 1
      [] stage = "analyze"  -> 2
      [] stage = "respond"  -> 3
      [] stage = "validate" -> 4
      [] stage = "done"     -> 5

IsPrefix(a, b) == Len(a) <= Len(b) /\ SubSeq(b, 1, Len(a)) = a

\* the external calls of a request that runs to the end, the log append aside
CallsInOrder(urls) ==
    [k \in 1..Len(urls) |-> Call("get", urls[k])]
        \o <<Call("llm", "analyze"), Call("llm", "respond"), Call("llm", "classify")>>

WithoutAppend(cs) == SelectSeq(cs, LAMBDA c : c.op # "append_row")

CallsSoFarMatchStage(r) ==
    LET n == Len(WithoutAppend(calls[r]))
        u == Len(agent[r].urls)
    IN  /\ IsPrefix(WithoutAppend(calls[r]), CallsInOrder(agent[r].urls))
        /\ pc[r] = "idle" => n = 0
        /\ pc[r] = "scrape" => n = idx[r] - 1 /\ n <= u
        /\ pc[r] = "analyze" => n = u
        /\ pc[r] = "respond" => n = u + 1
        /\ pc[r] = "validate" => n = u + 2
        /\ pc[r] = "done" => n = u + StageRank(IF raisedIn[r] = "none" THEN "validate"
                                                ELSE raisedIn[r]) - 1

C11_StagesInOrderOnce ==
    /\ [](\A r \in Reqs : CallsSoFarMatchStage(r))
    /\ [][\A r \in Reqs :
            /\ pc'[r] # pc[r] =>
                 \/ StageRank(pc'[r]) = StageRank(pc[r]) + 1
                 \/ pc'[r] = "done" /\ raisedIn'[r] = pc[r]
            /\ IsPrefix(calls[r], calls'[r])
            /\ Len(calls'[r]) > Len(calls[r]) => pc[r] \in {"scrape", "analyze", "respond", "validate"}]_vars

\* a request that ran all four stages and appended its row: seven calls, in order
C11_Witness ==
    /\ Completed("r1")
    /\ Len(calls["r1"]) = Len(Targets) + 4
    /\ WithoutAppend(calls["r1"]) = CallsInOrder(Targets)
    /\ calls["r1"][Len(calls["r1"])].op = "append_row"
    /\ \E k \in 1..Len(fetched["r1"]) : fetched["r1"][k].kind = "raise"

(***************************************************************************)
(* C12: the log side effect is confined to the needs-attention branch.  A  *)
(* request calls append_row at most once, as its last call, right after a  *)
(* classify call whose text names the needs-attention category and after   *)
(* the respond call has returned; a request classified as routine and a    *)
(* request that aborts in analyze or respond never call it; and the log    *)
(* holds no row that no request appended.                                  *)
(***************************************************************************)
AppendCalls(r) == SelectSeq(calls[r], LAMBDA c : c.op = "append_row")

C12_LogOnlyOnComplaint ==
    /\ \A r \in Reqs :
         LET n == Len(calls[r]) IN
         /\ Len(AppendCalls(r)) <= 1
         /\ AppendCalls(r) # << >> =>
              /\ pc[r] = "done"
              /\ raisedIn[r] = "none"
              /\ SaysComplaint(classification[r])
              /\ calls[r][n].op = "append_row"
              /\ calls[r][n - 1] = Call("llm", "classify")
              /\ calls[r][n - 2] = Call("llm", "respond")
         /\ (Classified(r) /\ ~SaysComplaint(classification[r])) => AppendCalls(r) = << >>
         /\ raisedIn[r] # "none" => AppendCalls(r) = << >>
         /\ pc[r] # "done" => AppendCalls(r) = << >>
    /\ Len(sheet) <= Cardinality({r \in Reqs : AppendCalls(r) # << >>})

\* a complaint whose row was appended, after a respond call that returned text
C12_Witness ==
    /\ Completed("r1")
    /\ Len(AppendCalls("r1")) = 1
    /\ Len(sheet) = 1
    /\ sheet[1][2] = agent["r1"].query
    /\ agent["r1"].analysis # << >>

(***************************************************************************)
(* C13 as stated: each URL's section follows from its retrieval outcome,   *)
(* for status codes 200, other 2xx, 4xx and 5xx: a response with a success *)
(* status (2xx) gives a 'Content from <url>' section with the normalized   *)
(* text, a response with any other status gives a failure marker with that *)
(* status code, and an exception (of the GET or of parsing) gives a        *)
(* failure marker with the error description.                              *)
(***************************************************************************)
IsSuccessStatus(status_code) == status_code \in 200..299

SectionByOutcome(url, res) ==
    IF res.kind = "raise"
    THEN <<"\n", "--- Error scraping ", url, ": ", res.err, " ---", "\n">>
    ELSE IF ~IsSuccessStatus(res.status)
    THEN <<"\n", "--- Failed to scrape ", url, " (Status: ", ToString(res.status),
           ") ---", "\n">>
    ELSE IF res.parse_err # ""
    THEN <<"\n", "--- Error scraping ", url, ": ", res.parse_err, " ---", "\n">>
    ELSE <<"\n", "--- Content from ", url, " ---", "\n">> \o CleanText(res.body) \o <<"\n">>

C13_SectionKindFollowsOutcome ==
    \A r \in Reqs :
        pc[r] \in {"scrape", "analyze"} =>
            /\ Len(fetched[r]) = idx[r] - 1
            /\ combined_text[r] =
                 Flatten([k \in 1..Len(fetched[r]) |->
                            SectionByOutcome(agent[r].urls[k], fetched[r][k])])

(***************************************************************************)
(* C14 as stated: in the browser-based scraper every requested URL         *)
(* contributes exactly one '---' section, a 'Content from <url>' section   *)
(* or an 'Error scraping <url>' section and never both, whichever step of  *)
(* that URL's processing raises: while the loop runs the sections are      *)
(* those of the URLs visited so far, one each and in order, and the        *)
(* returned text has one per URL of the list.                              *)
(***************************************************************************)
C14_BrowserOneSectionPerUrl ==
    \A r \in Reqs :
        /\ pc[r] = "scrape" =>
             SectionLabels(combined_text[r]) = SubSeq(agent[r].urls, 1, idx[r] - 1)
        /\ pc[r] = "analyze" =>
             SectionLabels(agent[r].scraped_content) = agent[r].urls

\* the labels validation_node can write that hold no text of a collaborator
FixedLabels ==
    {StatusLogged, StatusNoCredentials, StatusNotLogged,
     <<"COMPLAINT/ISSUE - Error logging: ">>}

\* the triage decision shows in the status: "not logged" exactly for a
\* classification without the complaint category's name, a complaint label
\* otherwise
TriageIsBinary(r) ==
    agent[r].validation_status = StatusNotLogged <=> ~SaysComplaint(classification[r])

(***************************************************************************)
(* C15 as stated: validation_status is empty until the validate stage      *)
(* completes, and afterwards it is one of a closed set of labels fixed in  *)
(* advance, independent of the text of any collaborator error, the triage  *)
(* outcome being one of the two categories for every classifier output.    *)
(***************************************************************************)
C15_StatusFromFixedLabels ==
    \A r \in Reqs :
        /\ ~Completed(r) => agent[r].validation_status = << >>
        /\ Completed(r) =>
             /\ agent[r].validation_status \in FixedLabels
             /\ TriageIsBinary(r)

(***************************************************************************)
(* C15, amended: validation_status is empty until the validate stage       *)
(* completes (and stays empty when the request ends in a fault); once it   *)
(* has completed the status is one of the three fixed labels or the fixed  *)
(* prefix 'COMPLAINT/ISSUE - Error logging: ' followed by the description  *)
(* of the logging error, and it is the 'not logged' label exactly when the *)
(* classifier's output does not contain the complaint category's name,     *)
(* whatever that output is.                                                *)
(***************************************************************************)
C15_StatusLabelOrErrorDetail ==
    \A r \in Reqs :
        /\ ~Completed(r) => agent[r].validation_status = << >>
        /\ Completed(r) =>
             /\ \/ agent[r].validation_status \in
                        {StatusLogged, StatusNoCredentials, StatusNotLogged}
                \/ /\ IsErrorLoggingStatus(agent[r].validation_status)
                   /\ agent[r].validation_status[2] \in {w.what : w \in LogWrites} \ {""}
             /\ TriageIsBinary(r)

\* a classifier output naming both categories, and a log write that raised
C15_Witness ==
    /\ Completed("r1")
    /\ classification["r1"] = NormalWord \o <<" ", "/", " ">> \o Marker
    /\ IsErrorLoggingStatus(agent["r1"].validation_status)
    /\ agent["r1"].validation_status[2] = "JSONDecodeError"

\* the stages in the order of the graph, and the field each one writes
StageOrder == <<"scrape", "analyze", "respond", "validate">>

StageField == <<"scraped_content", "analysis", "final_response", "validation_status">>

\* when r is about to run a stage, the field of that stage and of every later
\* one has not been written yet
LaterFieldsEmpty(r) ==
    \A i, j \in 1..4 : (pc[r] = StageOrder[i] /\ i <= j) => agent[r][StageField[j]] = << >>

\* r changes `field` in this step only as `stage` hands over to `next`
WrittenOnlyBy(r, field, stage, next) ==
    agent'[r][field] # agent[r][field] => pc[r] = stage /\ pc'[r] = next

\* what each stage hands on is made from the fields it is declared to read
ReadsDeclaredInputs(r) ==
    /\ pc[r] = "analyze" /\ pc'[r] = "respond" =>
         agent'[r].analysis \in
            {LlmText(style, AnalystPrompt(agent[r].query, agent[r].scraped_content)) :
                style \in LlmStyles}
    /\ pc[r] = "respond" /\ pc'[r] = "validate" =>
         agent'[r].final_response \in
            {LlmText(style, ResponderPrompt(agent[r].query, agent[r].analysis)) :
                style \in LlmStyles}
    /\ pc[r] = "validate" /\ pc'[r] = "done" /\ outcome'[r].kind = "response" =>
         /\ agent'[r].final_response \in {agent[r].final_response, <<AckText>>}
         /\ sheet' # sheet => sheet'[Len(sheet')][2] = agent[r].query

(***************************************************************************)
(* C16: data flows forward and each field has one writer.  When a stage is *)
(* about to run, its own field and the fields of all later stages are      *)
(* still empty, so it can read nothing a later stage wrote; what it hands  *)
(* on is made from its declared inputs (analyze: query and                 *)
(* scraped_content; respond: query and analysis; validate: query and       *)
(* final_response); query and urls never change once the request exists;   *)
(* scraped_content changes only in scrape's return and analysis only in    *)
(* analyze's, and no later stage changes them.                             *)
(***************************************************************************)
C16_ForwardDataFlow ==
    /\ [](\A r \in Reqs : LaterFieldsEmpty(r))
    /\ [][\A r \in Reqs :
            /\ pc[r] # "idle" =>
                 agent'[r].query = agent[r].query /\ agent'[r].urls = agent[r].urls
            /\ WrittenOnlyBy(r, "scraped_content", "scrape", "analyze")
            /\ WrittenOnlyBy(r, "analysis", "analyze", "respond")
            /\ agent'[r].final_response # agent[r].final_response =>
                 pc[r] \in {"respond", "validate"}
            /\ agent'[r].validation_status # agent[r].validation_status =>
                 pc[r] = "validate"
            /\ ReadsDeclaredInputs(r)]_vars

\* a request that ran all four stages, each having written its field
C16_Witness ==
    /\ Completed("r1")
    /\ \A j \in 1..4 : agent["r1"][StageField[j]] # << >>
    /\ agent["r1"].final_response = <<AckText>>

\* append_row was called for r and returned: the row it was called with is
\* in the sheet
AppendReturned(r) ==
    \E k \in 1..Len(AppendCalls(r)) :
        <<AppendCalls(r)[k].arg, agent[r].query>> \in Range(sheet)

\* append_row was called for r and raised
AppendRaised(r) == AppendCalls(r) # << >> /\ ~AppendReturned(r)

(***************************************************************************)
(* C17: the status tells the truth about the log.  A request's status is   *)
(* 'COMPLAINT/ISSUE - Logged to Google Sheets' exactly when append_row was *)
(* called for it and returned; a request whose append_row raised, or was   *)
(* never called, has another status.                                       *)
(***************************************************************************)
C17_StatusTruthfulAboutLog ==
    \A r \in Reqs :
        /\ agent[r].validation_status = StatusLogged <=> AppendReturned(r)
        /\ AppendRaised(r) =>
             Completed(r) /\ agent[r].validation_status = <<"COMPLAINT/ISSUE - Error logging: ", "append_row">>
        /\ AppendCalls(r) = << >> => agent[r].validation_status # StatusLogged

\* a request whose row was appended and whose status says so
C17_Witness ==
    /\ AppendReturned("r1")
    /\ agent["r1"].validation_status = StatusLogged
    /\ Len(sheet) = 1

\* r has its one terminal outcome: the success response carrying
\* final_response, or the 500 fault
Terminated(r) ==
    /\ pc[r] = "done"
    /\ \/ outcome[r] = [kind |-> "response", status |-> 200, body |-> agent[r].final_response]
       \/ outcome[r].kind = "fault" /\ outcome[r].status = 500

(***************************************************************************)
(* C18: every request terminates.  Provided every external call            *)
(* eventually returns or raises, a request that was accepted eventually    *)
(* has a terminal outcome, the success response carrying final_response or *)
(* a 500 fault; it has an outcome exactly when no stage is pending, and    *)
(* once it has one neither the outcome nor the request's position changes, *)
(* so there is exactly one.                                                *)
(***************************************************************************)
C18_EveryRequestTerminates ==
    /\ \A r \in Reqs : (pc[r] # "idle") ~> Terminated(r)
    /\ [](\A r \in Reqs : outcome[r] # NoOutcome <=> pc[r] = "done")
    /\ [](\A r \in Reqs : pc[r] = "done" => Terminated(r))
    /\ [][\A r \in Reqs :
            pc[r] = "done" => pc'[r] = "done" /\ outcome'[r] = outcome[r]]_vars

\* a request that ended in a fault after two stages had run
C18_Witness ==
    /\ Terminated("r1")
    /\ outcome["r1"].kind = "fault"
    /\ raisedIn["r1"] = "respond"
    /\ Len(calls["r1"]) = Len(Targets) + 2

====
